---- MODULE Spec2Model ----
(***************************************************************************)
(* Model of the installer's lifecycle engine (src/installer.rs): the       *)
(* Installer object, the part of the filesystem it touches (the base       *)
(* directory, the "umamusume.exe.local" overlay directory and the files in *)
(* it), and the DevOverrideEnable registry value.                          *)
(*                                                                         *)
(* A path is the sequence of its components.  Every path the installer     *)
(* builds has the form <<install_dir, "umamusume.exe.local", name>>, so    *)
(* the filesystem is the kind of the base directory, the kind of the       *)
(* overlay directory, and one entry per file name inside the overlay.      *)
(* File names are plain names (no separators).                             *)
(***************************************************************************)
EXTENDS Naturals, Sequences, FiniteSets

VARIABLES
    install_dir,    \* Installer.install_dir : Option<PathBuf>
    target,         \* Installer.target : Target
    custom_target,  \* Installer.custom_target : Option<String>
    fs,             \* the filesystem under the base directory
    reg,            \* the DevOverrideEnable value under the IFEO key
    last,           \* the last call: its name, result, effects in order, and what
                    \* the environment answers in it (key opens, the user's click)
    pre,            \* filesystem and registry as they were when the last call began
    prev            \* the call before the last one, if it succeeded: its name

vars == <<install_dir, target, custom_target, fs, reg, last, pre, prev>>

(***************************************************************************)
(* Bounds.                                                                 *)
(***************************************************************************)
\* length of the embedded primary payload (hachimi.dll), an opaque blob
HachimiLen == 2
\* length of the embedded loader shim (cellar.dll), an opaque blob
CellarLen == 1

(***************************************************************************)
(* Values.                                                                 *)
(***************************************************************************)
None == "None"
Base == "C:/umamusume"
DotLocalDir == "umamusume.exe.local"
ShimName == "apphelp.dll"

\* include_bytes!("../hachimi.dll") and include_bytes!("../cellar.dll")
HachimiDll == [i \in 1..HachimiLen |-> i]
CellarDll == [i \in 1..CellarLen |-> 100 + i]
\* contents of a file that was there before the installer ran: longer than
\* either payload, so that truncation on create is visible
OldData == [i \in 1..(HachimiLen + CellarLen + 1) |-> 200]

\* enum Target and Target::VALUES, in declaration order
TargetValues == <<"UnityPlayer">>
Targets == {TargetValues[i] : i \in 1..Len(TargetValues)}

dll_name(t) == CASE t = "UnityPlayer" -> "UnityPlayer.dll"

\* impl From<Target> for TargetType
TargetType_from(t) == CASE t = "UnityPlayer" -> "DotLocal"

\* the custom file names the operator may give, and a bystander file
CustomNames == {ShimName, "custom.dll"}
Bystander == "other.dat"
Names == {dll_name(t) : t \in Targets} \cup CustomNames \cup {Bystander}

Absent == [kind |-> "absent", data |-> <<>>]
Dir == [kind |-> "dir", data |-> <<>>]
RegFile(d) == [kind |-> "file", data |-> d]

\* registry::Data as far as the installer tells values apart
NoValue == [type |-> "none", v |-> 0]
U32(n) == [type |-> "U32", v |-> n]
OtherData == [type |-> "String", v |-> 0]

Prefix(s, n) == SubSeq(s, 1, n)

(***************************************************************************)
(* Path resolution.                                                        *)
(***************************************************************************)
\* mutant: a missing install_dir falls back to the working directory
get_target_path_internal_cwd(dir, t, p) ==
    <<IF dir = None THEN "." ELSE dir, DotLocalDir, p>>

\* Installer::get_target_path_internal: install_dir?.join(overlay).join(p)
get_target_path_internal(dir, t, p) ==
    IF dir = None THEN None ELSE <<dir, DotLocalDir, p>>

\* mutant: the custom file name is used for every target's path
get_target_path_uses_custom(dir, t) ==
    get_target_path_internal(dir, t, IF custom_target # None THEN custom_target
                                     ELSE dll_name(t))

\* Installer::get_target_path
get_target_path(dir, t) == get_target_path_internal(dir, t, dll_name(t))

\* Installer::get_current_target_path
get_current_target_path(dir, t, custom) ==
    get_target_path_internal(dir, t, IF custom # None THEN custom ELSE dll_name(t))

(***************************************************************************)
(* The filesystem calls of std::fs the installer makes.  `fail` names the  *)
(* step the environment makes fail in this call (permissions, a file in    *)
(* use, a full disk), or "none".                                           *)
(***************************************************************************)
WriteFailPoints == {"none", "mkdir_base", "mkdir_local", "create", "write"}
RemoveFailPoints == {"none", "remove_file", "remove_dir"}

\* what is at a path <<base, overlay, name>>
Lookup(f, path) ==
    IF f.base = "dir" /\ f.local = "dir" THEN f.files[path[3]] ELSE Absent

\* std::fs::metadata(path) succeeds and metadata.is_file()
is_file(f, path) == Lookup(f, path).kind = "file"

\* std::fs::create_dir_all(<<base, overlay>>): existing directories are kept,
\* missing ones are created parent first, a file in the way is an error
create_dir_all(f, fail) ==
    IF f.base = "file" THEN [ok |-> FALSE, fs |-> f]
    ELSE IF f.base = "absent" /\ fail = "mkdir_base" THEN [ok |-> FALSE, fs |-> f]
    ELSE LET f1 == [f EXCEPT !.base = "dir"] IN
         IF f1.local = "file" THEN [ok |-> FALSE, fs |-> f1]
         ELSE IF f1.local = "absent" /\ fail = "mkdir_local"
              THEN [ok |-> FALSE, fs |-> f1]
              ELSE [ok |-> TRUE, fs |-> [f1 EXCEPT !.local = "dir"]]

\* File::create(path): creates the file or truncates it to length 0
File_create(f, path, fail) ==
    IF f.base # "dir" \/ f.local # "dir" THEN [ok |-> FALSE, fs |-> f]
    ELSE IF f.files[path[3]].kind = "dir" THEN [ok |-> FALSE, fs |-> f]
    ELSE IF fail = "create" THEN [ok |-> FALSE, fs |-> f]
    ELSE [ok |-> TRUE, fs |-> [f EXCEPT !.files[path[3]] = RegFile(<<>>)]]

\* file.write(buf) on the file just created: one write call, which returns
\* Ok(n) after writing the first n <= buf.len() bytes; the installer drops n
write(f, path, buf, n, fail) ==
    IF fail = "write" THEN [ok |-> FALSE, fs |-> f]
    ELSE [ok |-> TRUE, fs |-> [f EXCEPT !.files[path[3]] = RegFile(Prefix(buf, n))]]

\* mutant: removing a file that is not there succeeds
remove_file_missing_ok(f, path, fail) ==
    IF Lookup(f, path).kind = "absent" THEN [ok |-> TRUE, fs |-> f]
    ELSE IF Lookup(f, path).kind # "file" THEN [ok |-> FALSE, fs |-> f]
    ELSE IF fail = "remove_file" THEN [ok |-> FALSE, fs |-> f]
    ELSE [ok |-> TRUE, fs |-> [f EXCEPT !.files[path[3]] = Absent]]

\* std::fs::remove_file(path)
remove_file(f, path, fail) ==
    IF Lookup(f, path).kind # "file" THEN [ok |-> FALSE, fs |-> f]
    ELSE IF fail = "remove_file" THEN [ok |-> FALSE, fs |-> f]
    ELSE [ok |-> TRUE, fs |-> [f EXCEPT !.files[path[3]] = Absent]]

\* std::fs::remove_dir(<<base, overlay>>): removes an empty directory only
remove_dir(f, fail) ==
    IF f.base # "dir" \/ f.local # "dir" THEN [ok |-> FALSE, fs |-> f]
    ELSE IF \E nm \in Names : f.files[nm].kind # "absent" THEN [ok |-> FALSE, fs |-> f]
    ELSE IF fail = "remove_dir" THEN [ok |-> FALSE, fs |-> f]
    ELSE [ok |-> TRUE, fs |-> [f EXCEPT !.local = "absent"]]

(***************************************************************************)
(* The registry.                                                           *)
(***************************************************************************)
\* mutant: a value that is missing or not a DWORD counts as enabled
DevOverrideEnable_default_one(r) == IF r.type = "U32" THEN r.v ELSE 1

\* regkey.value("DevOverrideEnable").ok().map(U32(v) => v, _ => 0).unwrap_or(0)
DevOverrideEnable(r) == IF r.type = "U32" THEN r.v ELSE 0

\* mutant: any value other than 1 counts as disabled
redirection_disabled_unless_one(r) == DevOverrideEnable(r) # 1

\* the test that guards the confirmation prompt: ... == 0
redirection_disabled(r) == DevOverrideEnable(r) = 0

(***************************************************************************)
(* The handlers, as functions from the state and the environment's choices *)
(* to the result, the new filesystem and registry, and the effects in      *)
(* order.                                                                  *)
(***************************************************************************)
Outcome(res, f, r, log) == [res |-> res, fs |-> f, reg |-> r, log |-> log]

\* Installer::install.  n: the byte count the write call reports.
install_result(dir, t, custom, f, r, fail, n) ==
    LET path == get_current_target_path(dir, t, custom) IN
    IF path = None THEN Outcome("NoInstallDir", f, r, <<>>)
    ELSE LET md == create_dir_all(f, fail) IN
    IF ~md.ok THEN Outcome("IoError", md.fs, r, <<"create_dir_all">>)
    ELSE LET cr == File_create(md.fs, path, fail) IN
    IF ~cr.ok THEN Outcome("IoError", cr.fs, r, <<"create_dir_all", "create">>)
    ELSE LET wr == write(cr.fs, path, HachimiDll, n, fail) IN
    IF ~wr.ok THEN Outcome("IoError", wr.fs, r, <<"create_dir_all", "create", "write">>)
    ELSE Outcome("Ok", wr.fs, r, <<"create_dir_all", "create", "write">>)

\* mutant: the flag is written whatever the user clicks
redirection_gate_any_answer(f, r, fail, answer, log) ==
    IF redirection_disabled(r)
    THEN IF fail = "set_value"
         THEN Outcome("RegistryValueError", f, r,
                      log \o <<"value", "confirm", answer, "set_value">>)
         ELSE Outcome("Ok", f, U32(1),
                      log \o <<"value", "confirm", answer, "set_value", "restart_notice">>)
    ELSE Outcome("Ok", f, r, log \o <<"value">>)

\* mutant: a failed write of the flag is ignored
redirection_gate_ignore_set_error(f, r, fail, answer, log) ==
    IF redirection_disabled(r)
    THEN IF answer = "IDOK"
         THEN Outcome("Ok", f, IF fail = "set_value" THEN r ELSE U32(1),
                      log \o <<"value", "confirm", "IDOK", "set_value",
                               "restart_notice">>)
         ELSE Outcome("Ok", f, r, log \o <<"value", "confirm", "IDCANCEL">>)
    ELSE Outcome("Ok", f, r, log \o <<"value">>)

\* the Ok(regkey) arm of post_install.  answer: what the user clicks in the
\* confirmation dialog (MessageBoxW with MB_OKCANCEL).
redirection_gate(f, r, fail, answer, log) ==
    IF redirection_disabled(r)
    THEN IF answer = "IDOK"
         THEN IF fail = "set_value"
              THEN Outcome("RegistryValueError", f, r,
                           log \o <<"value", "confirm", "IDOK", "set_value">>)
              ELSE Outcome("Ok", f, U32(1),
                           log \o <<"value", "confirm", "IDOK", "set_value",
                                    "restart_notice">>)
         ELSE Outcome("Ok", f, r, log \o <<"value", "confirm", "IDCANCEL">>)
    ELSE Outcome("Ok", f, r, log \o <<"value">>)

\* mutant: a key that does not open ends post_install with an error
open_ifeo_key_fatal(f, r, fail, key_ok, answer, log) ==
    IF key_ok
    THEN redirection_gate(f, r, fail, answer, log \o <<"open_key">>)
    ELSE Outcome("RegistryValueError", f, r, log \o <<"open_key">>)

\* the match on Hive::LocalMachine.open(...).  key_ok: whether it opens.
open_ifeo_key(f, r, fail, key_ok, answer, log) ==
    IF key_ok
    THEN redirection_gate(f, r, fail, answer, log \o <<"open_key">>)
    ELSE Outcome("Ok", f, r, log \o <<"open_key", "warning">>)

\* Installer::post_install
post_install_result(dir, t, f, r, fail, n, key_ok, answer) ==
    IF TargetType_from(t) = "DotLocal"
    THEN IF dir = None THEN Outcome("NoInstallDir", f, r, <<>>)
         ELSE LET path == <<dir, DotLocalDir, ShimName>>
                  md == create_dir_all(f, fail) IN
         IF ~md.ok THEN Outcome("IoError", md.fs, r, <<"create_dir_all">>)
         ELSE LET cr == File_create(md.fs, path, fail) IN
         IF ~cr.ok THEN Outcome("IoError", cr.fs, r, <<"create_dir_all", "create">>)
         ELSE LET wr == write(cr.fs, path, CellarDll, n, fail) IN
         IF ~wr.ok THEN Outcome("IoError", wr.fs, r, <<"create_dir_all", "create", "write">>)
         ELSE open_ifeo_key(wr.fs, r, fail, key_ok, answer,
                            <<"create_dir_all", "create", "write">>)
    ELSE Outcome("Ok", f, r, <<>>)

\* mutant: the overlay directory is removed with whatever is in it
remove_overlay_dir_all(t, f, fail) ==
    IF TargetType_from(t) = "DotLocal" /\ f.base = "dir" /\ f.local = "dir"
    THEN [f EXCEPT !.local = "absent", !.files = [nm \in Names |-> Absent]]
    ELSE f

\* the topology step of uninstall: _ = std::fs::remove_dir(parent)
remove_overlay_dir(t, f, fail) ==
    IF TargetType_from(t) = "DotLocal" THEN remove_dir(f, fail).fs ELSE f

\* Installer::uninstall
uninstall_result(dir, t, custom, f, r, fail) ==
    LET path == get_current_target_path(dir, t, custom) IN
    IF path = None THEN Outcome("NoInstallDir", f, r, <<>>)
    ELSE LET rm == remove_file(f, path, fail) IN
    IF ~rm.ok THEN Outcome("IoError", rm.fs, r, <<"remove_file">>)
    ELSE Outcome("Ok", remove_overlay_dir(t, rm.fs, fail), r,
                 <<"remove_file", "remove_dir">>)

\* Installer::is_current_target_installed
is_current_target_installed(dir, t, custom, f) ==
    LET path == get_current_target_path(dir, t, custom) IN
    IF path = None THEN FALSE ELSE is_file(f, path)

(***************************************************************************)
(* Version probing.  utils::read_pe_version_info is not part of the source *)
(* at hand: it is modelled after its contract, as a table from the bytes   *)
(* of a module image to the ProductName and ProductVersion strings stored  *)
(* under the language-neutral Unicode key.  Bytes that are not in the      *)
(* table are not a module image with a version resource.                   *)
(***************************************************************************)
VersionTable ==
    <<[data |-> HachimiDll, ProductName |-> "Hachimi", ProductVersion |-> "0.1"],
      [data |-> <<61>>, ProductName |-> "Hachimi", ProductVersion |-> "0.2"],
      [data |-> <<62>>, ProductName |-> "hachimi", ProductVersion |-> "0.1"],
      [data |-> <<63>>, ProductName |-> "Unity", ProductVersion |-> None],
      [data |-> <<64>>, ProductName |-> None, ProductVersion |-> "0.1"]>>

ImageData == {VersionTable[i].data : i \in 1..Len(VersionTable)}

\* an Option of a structure: <<>> for None, <<x>> for Some(x)
Nothing == <<>>
Some(x) == <<x>>

\* utils::read_pe_version_info(bytes): None, or the version resource
read_pe_version_info(data) ==
    IF data \in ImageData
    THEN LET e == CHOOSE e \in {VersionTable[i] : i \in 1..Len(VersionTable)} :
                      e.data = data
         IN Some([ProductName |-> e.ProductName, ProductVersion |-> e.ProductVersion])
    ELSE Nothing

\* TargetVersionInfo and TargetVersionInfo::default()
TargetVersionInfo(name, version) == [name |-> name, version |-> version]
TargetVersionInfo_default == TargetVersionInfo(None, None)

\* pelite::FileMap::open(&path): Err for a path with no regular file behind
\* it, and for a file the environment does not let this process open
FileMap_open(f, path, open_ok) ==
    IF is_file(f, path) /\ open_ok
    THEN [ok |-> TRUE, bytes |-> Lookup(f, path).data]
    ELSE [ok |-> FALSE, bytes |-> <<>>]

\* Installer::get_target_version_info.  open_ok: whether the file, if any,
\* can be opened.
get_target_version_info(dir, t, f, open_ok) ==
    LET path == get_target_path(dir, t) IN
    IF path = None THEN Nothing
    ELSE LET map == FileMap_open(f, path, open_ok) IN
    IF ~map.ok THEN Nothing
    ELSE LET version_info == read_pe_version_info(map.bytes) IN
    IF version_info = Nothing THEN Some(TargetVersionInfo_default)
    ELSE Some(TargetVersionInfo(version_info[1].ProductName,
                                version_info[1].ProductVersion))

\* mutant: the marker is compared without regard to case
is_hachimi_ignore_case(info) ==
    IF info.name # None THEN info.name \in {"Hachimi", "hachimi"} ELSE FALSE

\* TargetVersionInfo::is_hachimi
is_hachimi(info) ==
    IF info.name # None THEN info.name = "Hachimi" ELSE FALSE

\* mutant: the label is the file name and the name, with no marker in front
get_display_label_plain(info, t) ==
    dll_name(t) \o " (" \o (IF info.name # None THEN info.name ELSE "Unknown") \o ")"

\* TargetVersionInfo::get_display_label: format!("* {} ({})", dll_name, name)
get_display_label(info, t) ==
    "* " \o dll_name(t) \o " (" \o (IF info.name # None THEN info.name ELSE "Unknown")
         \o ")"

\* Installer::get_target_display_label
get_target_display_label(dir, t, f, open_ok) ==
    LET version_info == get_target_version_info(dir, t, f, open_ok) IN
    IF version_info # Nothing THEN get_display_label(version_info[1], t)
    ELSE dll_name(t)

\* the loop of get_hachimi_installed_target from the i-th catalog entry on.
\* openable: the targets whose file the environment lets this process open.
RECURSIVE hachimi_scan(_, _, _, _)
hachimi_scan(dir, f, openable, i) ==
    IF i > Len(TargetValues) THEN None
    ELSE LET version_info ==
                 get_target_version_info(dir, TargetValues[i], f,
                                         TargetValues[i] \in openable) IN
         IF version_info # Nothing /\ is_hachimi(version_info[1])
         THEN TargetValues[i]
         ELSE hachimi_scan(dir, f, openable, i + 1)

\* Installer::get_hachimi_installed_target
get_hachimi_installed_target(dir, f, openable) == hachimi_scan(dir, f, openable, 1)

(***************************************************************************)
(* Directory discovery from the launcher's configuration file.             *)
(* A tinyjson::JsonValue is a record of its variant t and its payload v;   *)
(* the payload of an Object (a HashMap<String, JsonValue>) is the set of   *)
(* its <<key, value>> pairs, that of an Array the sequence of its items.   *)
(***************************************************************************)
JNull == [t |-> "Null", v |-> 0]
JNumber(n) == [t |-> "Number", v |-> n]
JString(str) == [t |-> "String", v |-> str]
JArray(items) == [t |-> "Array", v |-> items]
JObject(pairs) == [t |-> "Object", v |-> pairs]

HasKey(map, k) == \E kv \in map : kv[1] = k
\* &map[k] on a HashMap: the value under k; it panics when k is not a key
Index(map, k) == (CHOOSE kv \in map : kv[1] = k)[2]

Panic == "PANIC"
ProductId == "umamusume"

\* the for loop of detect_install_dir, from the i-th item of "contents" on.
\* dirs: the paths that are existing directories.
RECURSIVE scan_contents(_, _, _)
scan_contents(config_contents, i, dirs) ==
    IF i > Len(config_contents) THEN None
    ELSE LET value == config_contents[i] IN
    IF value.t # "Object" THEN None
    ELSE IF ~HasKey(value.v, "productId") THEN Panic
    ELSE LET product_id == Index(value.v, "productId") IN
    IF product_id.t # "String" THEN scan_contents(config_contents, i + 1, dirs)
    ELSE IF product_id.v # ProductId THEN scan_contents(config_contents, i + 1, dirs)
    ELSE IF ~HasKey(value.v, "detail") THEN Panic
    ELSE LET detail == Index(value.v, "detail") IN
    IF detail.t # "Object" THEN None
    ELSE IF ~HasKey(detail.v, "path") THEN Panic
    ELSE LET path_str == Index(detail.v, "path") IN
    IF path_str.t # "String" THEN None
    ELSE IF path_str.v \in dirs THEN path_str.v ELSE None

\* Installer::detect_install_dir.  app_data_ok: SHGetKnownFolderPath gives a
\* path; cfg: what reading and parsing dmmgame.cnf gives.  The result is
\* None, the directory, or Panic when the function does not return.
detect_install_dir(app_data_ok, cfg, dirs) ==
    IF ~app_data_ok THEN None
    ELSE IF cfg.state = "unreadable" THEN None
    ELSE IF cfg.state = "unparsable" THEN None
    ELSE IF cfg.json.t # "Object" THEN None
    ELSE LET config == cfg.json.v IN
    IF ~HasKey(config, "contents") THEN Panic
    ELSE LET contents == Index(config, "contents") IN
    IF contents.t # "Array" THEN None
    ELSE scan_contents(contents.v, 1, dirs)

(***************************************************************************)
(* Initial states: any installer configuration over any of the prior       *)
(* filesystem and registry states below.                                   *)
(***************************************************************************)
NoFiles == [nm \in Names |-> Absent]

\* at most one entry in the overlay directory to begin with: a file under any
\* of the names, or a directory where the default target file would go
InitFiles ==
    {NoFiles}
    \cup {[NoFiles EXCEPT ![nm] = RegFile(OldData)] : nm \in Names}
    \cup {[NoFiles EXCEPT ![dll_name(TargetValues[1])] = Dir]}

InitFs ==
    {[base |-> b, local |-> "absent", files |-> NoFiles] : b \in {"absent", "dir", "file"}}
    \cup {[base |-> "dir", local |-> "file", files |-> NoFiles]}
    \cup {[base |-> "dir", local |-> "dir", files |-> fl] : fl \in InitFiles}

RegValues == {NoValue, U32(0), U32(1), U32(2), OtherData}

Env(key_ok, answer) == [key_ok |-> key_ok, answer |-> answer]
NoEnv == Env(FALSE, "none")

Init ==
    /\ install_dir \in {None, Base}
    /\ target \in Targets
    /\ custom_target \in {None} \cup CustomNames
    /\ fs \in InitFs
    /\ reg \in RegValues
    /\ last = [op |-> "new", res |-> "Ok", log |-> <<>>, env |-> NoEnv]
    /\ pre = [fs |-> fs, reg |-> reg]
    /\ prev = "none"

\* a call returns: its effects take place and the history variables move on
Finish(op, out, env) ==
    /\ fs' = out.fs
    /\ reg' = out.reg
    /\ last' = [op |-> op, res |-> out.res, log |-> out.log, env |-> env]
    /\ pre' = [fs |-> fs, reg |-> reg]
    /\ prev' = IF last.res = "Ok" /\ last.op \in {"install", "uninstall"}
               THEN last.op ELSE "none"
    /\ UNCHANGED <<install_dir, target, custom_target>>

pre_install ==
    Finish("pre_install", Outcome("Ok", fs, reg, <<>>), NoEnv)

install ==
    \E fail \in WriteFailPoints, n \in 0..HachimiLen :
        Finish("install",
               install_result(install_dir, target, custom_target, fs, reg, fail, n),
               NoEnv)

post_install ==
    \E fail \in WriteFailPoints \cup {"set_value"}, n \in 0..CellarLen,
       key_ok \in BOOLEAN, answer \in {"IDOK", "IDCANCEL"} :
        Finish("post_install",
               post_install_result(install_dir, target, fs, reg, fail, n, key_ok, answer),
               Env(key_ok, answer))

uninstall ==
    \E fail \in RemoveFailPoints :
        Finish("uninstall",
               uninstall_result(install_dir, target, custom_target, fs, reg, fail),
               NoEnv)

query_installed ==
    Finish("is_current_target_installed",
           Outcome(IF is_current_target_installed(install_dir, target, custom_target, fs)
                   THEN "true" ELSE "false", fs, reg, <<>>),
           NoEnv)

Next ==
    \/ pre_install
    \/ install
    \/ post_install
    \/ uninstall
    \/ query_installed

Spec == Init /\ [][Next]_vars

(***************************************************************************)
(* The state queries and the directory discovery, which change nothing:    *)
(* a second specification applies them to every installer configuration    *)
(* over filesystems whose target file is missing, a directory, a module    *)
(* image of the version table, or some other bytes.                        *)
(***************************************************************************)
\* the most items the "contents" array of a configuration has
MaxContents == 2

QueryFiles ==
    {[NoFiles EXCEPT ![dll_name(TargetValues[1])] = e, !["custom.dll"] = c] :
        e \in {Absent, Dir} \cup {RegFile(d) : d \in ImageData \cup {OldData, <<>>}},
        c \in {Absent, RegFile(HachimiDll)}}

QueryFs ==
    {[base |-> "absent", local |-> "absent", files |-> NoFiles]}
    \cup {[base |-> "dir", local |-> "dir", files |-> fl] : fl \in QueryFiles}

QueryInit ==
    /\ install_dir \in {None, Base}
    /\ target \in Targets
    /\ custom_target \in {None} \cup CustomNames
    /\ fs \in QueryFs
    /\ reg = NoValue
    /\ last = [op |-> "new", arg |-> None, env |-> None, res |-> None]
    /\ pre = [fs |-> fs, reg |-> reg]
    /\ prev = "none"

\* a query returns: nothing but the record of the call changes
Answer(op, arg, env, res) ==
    /\ last' = [op |-> op, arg |-> arg, env |-> env, res |-> res]
    /\ UNCHANGED <<install_dir, target, custom_target, fs, reg, pre, prev>>

query_target_path ==
    \E t \in Targets :
        Answer("get_target_path", t, None, get_target_path(install_dir, t))

query_current_target_path ==
    Answer("get_current_target_path", None, None,
           get_current_target_path(install_dir, target, custom_target))

query_version_info ==
    \E t \in Targets, open_ok \in BOOLEAN :
        Answer("get_target_version_info", t, open_ok,
               get_target_version_info(install_dir, t, fs, open_ok))

query_display_label ==
    \E t \in Targets, open_ok \in BOOLEAN :
        Answer("get_target_display_label", t, open_ok,
               get_target_display_label(install_dir, t, fs, open_ok))

query_hachimi_target ==
    \E openable \in SUBSET Targets :
        Answer("get_hachimi_installed_target", None, openable,
               get_hachimi_installed_target(install_dir, fs, openable))

InfoNames == {None, "Hachimi", "hachimi", "Hachimi2", "Unity"}
InfoVersions == {None, "0.1", "0.2"}

query_is_hachimi ==
    \E name \in InfoNames, version \in InfoVersions :
        Answer("is_hachimi", TargetVersionInfo(name, version), None,
               is_hachimi(TargetVersionInfo(name, version)))

\* the launcher configurations: the file cannot be read, is not JSON, or
\* parses to one of these values
GameDir == "D:/games/umamusume"
GoneDir == "D:/games/removed"

ConfigEntries ==
    {JNumber(7),
     JObject({}),
     JObject({<<"productId", JNumber(7)>>}),
     JObject({<<"productId", JString("othergame")>>}),
     JObject({<<"productId", JString(ProductId)>>}),
     JObject({<<"productId", JString(ProductId)>>, <<"detail", JString(GameDir)>>}),
     JObject({<<"productId", JString(ProductId)>>, <<"detail", JObject({})>>}),
     JObject({<<"productId", JString(ProductId)>>,
              <<"detail", JObject({<<"path", JNumber(7)>>})>>}),
     JObject({<<"productId", JString(ProductId)>>,
              <<"detail", JObject({<<"path", JString(GameDir)>>})>>}),
     JObject({<<"productId", JString(ProductId)>>,
              <<"detail", JObject({<<"path", JString(GoneDir)>>})>>})}

ConfigContents == UNION {[1..k -> ConfigEntries] : k \in 0..MaxContents}

ConfigRoots ==
    {JNull, JArray(<<>>), JObject({}), JObject({<<"contents", JString("none")>>})}
    \cup {JObject({<<"contents", JArray(c)>>}) : c \in ConfigContents}

Configs ==
    {[state |-> "unreadable", json |-> JNull], [state |-> "unparsable", json |-> JNull]}
    \cup {[state |-> "parsed", json |-> j] : j \in ConfigRoots}

QueryNext ==
    \/ query_target_path
    \/ query_current_target_path
    \/ query_version_info
    \/ query_display_label
    \/ query_hachimi_target
    \/ query_is_hachimi

QuerySpec == QueryInit /\ [][QueryNext]_vars

(***************************************************************************)
(* The directory discovery reads no field of an Installer: a third         *)
(* specification starts from every configuration file, state of the        *)
(* special-folder lookup and set of existing directories, and runs it.     *)
(***************************************************************************)
DetectInit ==
    /\ install_dir = None
    /\ target \in Targets
    /\ custom_target = None
    /\ fs = [base |-> "absent", local |-> "absent", files |-> NoFiles]
    /\ reg = NoValue
    /\ \E app_data_ok \in BOOLEAN, cfg \in Configs, dirs \in SUBSET {GameDir} :
          last = [op |-> "start", arg |-> cfg,
                  env |-> [app_data_ok |-> app_data_ok, dirs |-> dirs], res |-> None]
    /\ pre = [fs |-> fs, reg |-> reg]
    /\ prev = "none"

query_detect_install_dir ==
    /\ last.op = "start"
    /\ Answer("detect_install_dir", last.arg, last.env,
              detect_install_dir(last.env.app_data_ok, last.arg, last.env.dirs))

DetectNext == query_detect_install_dir

DetectSpec == DetectInit /\ [][DetectNext]_vars

(***************************************************************************)
(* Vocabulary of the claims.                                               *)
(***************************************************************************)
CurPath == get_current_target_path(install_dir, target, custom_target)
CurName == IF custom_target # None THEN custom_target ELSE dll_name(target)
ShimPath == <<install_dir, DotLocalDir, ShimName>>
InLog(e) == \E i \in 1..Len(last.log) : last.log[i] = e
Returned(op, res) == last.op = op /\ last.res = res
Installed == is_current_target_installed(install_dir, target, custom_target, fs)
\* the DevOverrideEnable value is a DWORD other than 0
FlagIsSet(r) == r.type = "U32" /\ r.v > 0
\* every entry of the overlay directory other than nm is as it was before the call
OthersUntouched(nm) == \A o \in Names \ {nm} : fs.files[o] = pre.fs.files[o]

(***************************************************************************)
(* C1.  Whenever install() returns Ok, the file at the current target path *)
(* holds exactly the bytes of the embedded primary payload, all of them,   *)
(* whatever was on disk before and whatever custom_target is.              *)
(* The code calls file.write once and drops the byte count, so a short     *)
(* write leaves a proper prefix of the payload and install() returns Ok.   *)
(***************************************************************************)
C1_InstalledFileEqualsPayload ==
    Returned("install", "Ok") => Lookup(fs, CurPath) = RegFile(HachimiDll)

(***************************************************************************)
(* C2.  Lifecycle round trip from a known base directory: after a          *)
(* successful install() is_current_target_installed() is true and exactly  *)
(* one file was created, equal to the primary payload; after a successful  *)
(* uninstall() right after it the file is gone and                         *)
(* is_current_target_installed() is false.                                 *)
(***************************************************************************)
C2_LifecycleRoundTrip ==
    /\ (install_dir # None /\ Returned("install", "Ok")) =>
          /\ Installed
          /\ Lookup(fs, CurPath) = RegFile(HachimiDll)
          /\ OthersUntouched(CurName)
    /\ (install_dir # None /\ prev = "install" /\ Returned("uninstall", "Ok")) =>
          /\ Lookup(fs, CurPath) = Absent
          /\ ~Installed

\* C2 without the equality of contents, which C1's short write breaks: the
\* rest of the round trip holds of the code
C2_RoundTripExistence ==
    /\ (install_dir # None /\ Returned("install", "Ok")) =>
          /\ Installed
          /\ OthersUntouched(CurName)
    /\ (install_dir # None /\ prev = "install" /\ Returned("uninstall", "Ok")) =>
          /\ Lookup(fs, CurPath) = Absent
          /\ ~Installed

(***************************************************************************)
(* C3.  install() is idempotent: after two successful install() calls in a *)
(* row the filesystem (the target file's contents, the files and the       *)
(* directories under the base directory) is what it was after the first.   *)
(***************************************************************************)
C3_InstallIdempotent ==
    (prev = "install" /\ Returned("install", "Ok")) => fs = pre.fs

(***************************************************************************)
(* C4.  With no base directory, install(), post_install() and uninstall()  *)
(* return NoInstallDir before any effect: the filesystem and the registry  *)
(* are as before, the flag is neither read nor written and no dialog is    *)
(* shown (the call performs no step at all).                               *)
(***************************************************************************)
C4_NoInstallDirNoEffect ==
    (install_dir = None /\ last.op \in {"install", "post_install", "uninstall"}) =>
        /\ last.res = "NoInstallDir"
        /\ fs = pre.fs
        /\ reg = pre.reg
        /\ last.log = <<>>

\* post_install() was called with no base directory, on a filesystem where it
\* would otherwise write the shim and with the flag unset and the key openable
C4_Witness ==
    /\ install_dir = None
    /\ Returned("post_install", "NoInstallDir")
    /\ fs.base = "dir" /\ fs.local = "dir"
    /\ ~FlagIsSet(reg)
    /\ last.env = Env(TRUE, "IDOK")

(***************************************************************************)
(* C5.  Scenario B: after a successful install(), in the overlay topology  *)
(* with the flag unset and the registry key openable, a post_install()     *)
(* that returns Ok has written the loader shim into the overlay folder     *)
(* (the shim file holds bytes of the shim payload from its first byte on)  *)
(* and, if the user confirmed, the flag is 1; if the user declined, the    *)
(* flag is as it was, unset, and the primary file is still installed.      *)
(***************************************************************************)
KeyOpened == InLog("open_key") /\ last.env.key_ok

C6_FlagWrittenOnlyOnConfirm ==
    /\ (reg # pre.reg \/ InLog("set_value")) =>
          /\ last.op = "post_install"
          /\ InLog("confirm")
          /\ last.env.answer = "IDOK"
    /\ reg # pre.reg => reg = U32(1)
    /\ FlagIsSet(pre.reg) => reg = pre.reg
    /\ last.op \in {"uninstall", "install", "pre_install", "is_current_target_installed"} =>
          /\ ~InLog("open_key")
          /\ ~InLog("value")
          /\ ~InLog("set_value")
          /\ reg = pre.reg

\* the flag was written: it was 0 and is 1 after a confirmed post_install()
C6_Witness ==
    /\ last.op = "post_install"
    /\ pre.reg = U32(0)
    /\ reg = U32(1)
    /\ InLog("set_value")

(***************************************************************************)
(* C7.  In post_install(), when the key opens and the flag is already set, *)
(* nothing further happens: no prompt, no write of the flag, no restart    *)
(* notice.  The prompt is shown exactly when the key opens and the flag is *)
(* unset.                                                                  *)
(***************************************************************************)
C7_PromptIffKeyOpensAndFlagUnset ==
    last.op = "post_install" =>
        /\ (KeyOpened /\ FlagIsSet(pre.reg)) =>
              /\ ~InLog("confirm")
              /\ ~InLog("set_value")
              /\ ~InLog("restart_notice")
              /\ reg = pre.reg
              /\ last.res = "Ok"
        /\ InLog("confirm") <=> (KeyOpened /\ ~FlagIsSet(pre.reg))

\* the key opened on a set flag and the user, who would have confirmed, was
\* not asked
C7_Witness ==
    /\ last.op = "post_install"
    /\ KeyOpened
    /\ pre.reg = U32(2)
    /\ last.env.answer = "IDOK"
    /\ ~InLog("confirm")

(***************************************************************************)
(* C8.  In post_install(), when opening the registry key fails, the user   *)
(* is shown a warning, the flag is neither read nor written, no prompt     *)
(* appears, the shim and the primary file stay in place, and               *)
(* post_install() returns Ok.                                              *)
(***************************************************************************)
C8_KeyOpenFailureIsWarning ==
    (last.op = "post_install" /\ InLog("open_key") /\ ~last.env.key_ok) =>
        /\ last.res = "Ok"
        /\ InLog("warning")
        /\ ~InLog("value")
        /\ ~InLog("set_value")
        /\ ~InLog("confirm")
        /\ reg = pre.reg
        /\ is_file(fs, ShimPath)
        /\ is_file(pre.fs, CurPath) => is_file(fs, CurPath)
        /\ CurName # ShimName => Lookup(fs, CurPath) = Lookup(pre.fs, CurPath)

\* after a successful install() the key did not open, on an unset flag
C8_Witness ==
    /\ prev = "install"
    /\ last.op = "post_install"
    /\ InLog("warning")
    /\ ~last.env.key_ok
    /\ reg = NoValue
    /\ Installed
    /\ is_file(fs, ShimPath)

(***************************************************************************)
(* C9.  uninstall() propagates a failure to remove the file at the current *)
(* target path, the file not being there included: it returns an I/O       *)
(* error, does not try to remove the overlay directory, and leaves the     *)
(* filesystem and the registry as they were.  So an uninstall() right      *)
(* after a successful one returns an error.                                *)
(***************************************************************************)
C9_UninstallPropagatesRemoveFailure ==
    /\ (last.op = "uninstall" /\ install_dir # None /\ ~is_file(pre.fs, CurPath)) =>
          last.res = "IoError"
    /\ (last.op = "uninstall" /\ install_dir # None /\ Lookup(fs, CurPath) # Absent) =>
          last.res = "IoError"
    /\ Returned("uninstall", "IoError") =>
          /\ fs = pre.fs
          /\ reg = pre.reg
          /\ ~InLog("remove_dir")
    /\ (prev = "uninstall" /\ last.op = "uninstall") => last.res = "IoError"

\* the second of two uninstall() calls in a row
C9_Witness ==
    /\ prev = "uninstall"
    /\ Returned("uninstall", "IoError")
    /\ Lookup(pre.fs, CurPath) = Absent

(***************************************************************************)
(* C10.  In the overlay topology, once uninstall() has removed the target  *)
(* file it returns Ok whether or not the overlay directory could be        *)
(* removed: the directory is removed only when it is empty, and when other *)
(* files remain they and the directory are left as they were.              *)
(***************************************************************************)
C10_OverlayDirRemovalSwallowed ==
    (/\ last.op = "uninstall"
     /\ install_dir # None
     /\ TargetType_from(target) = "DotLocal"
     /\ is_file(pre.fs, CurPath)
     /\ Lookup(fs, CurPath) = Absent) =>
        /\ last.res = "Ok"
        /\ InLog("remove_dir")
        /\ fs.base = "dir"
        /\ fs.local \in {"dir", "absent"}
        /\ OthersUntouched(CurName)
        /\ (\E o \in Names \ {CurName} : pre.fs.files[o] # Absent) => fs.local = "dir"

\* the target file was removed and the overlay directory, which still holds
\* another file, stayed
C10_Witness ==
    /\ Returned("uninstall", "Ok")
    /\ is_file(pre.fs, CurPath)
    /\ CurName # Bystander
    /\ fs.local = "dir"
    /\ fs.files[Bystander] = RegFile(OldData)

\* the target file was removed and the overlay directory, now empty, could
\* not be removed: uninstall() still returned Ok
C10_WitnessDirInUse ==
    /\ Returned("uninstall", "Ok")
    /\ is_file(pre.fs, CurPath)
    /\ fs.local = "dir"
    /\ fs.files = NoFiles

(***************************************************************************)
(* C11.  get_target_version_info(target) has three outcomes and never an   *)
(* error: None iff no file exists at the target path; an info with both    *)
(* fields absent whenever the file exists but cannot be opened or parsed   *)
(* as a module image; otherwise the ProductName and ProductVersion read    *)
(* under the language-neutral Unicode key.  An existing file that cannot   *)
(* be opened is never reported as absent.                                  *)
(* The code returns None as soon as FileMap::open fails (.ok()?), so an    *)
(* existing file that cannot be opened is reported as absent.              *)
(***************************************************************************)
FileExistsAt(t) ==
    install_dir # None /\ Lookup(fs, <<install_dir, DotLocalDir, dll_name(t)>>).kind = "file"
FileDataAt(t) == Lookup(fs, <<install_dir, DotLocalDir, dll_name(t)>>).data

C11_VersionInfoThreeOutcomes ==
    last.op = "get_target_version_info" =>
        LET t == last.arg
            opened == last.env
        IN /\ (last.res = Nothing) <=> ~FileExistsAt(t)
           /\ (FileExistsAt(t) /\ (~opened \/ FileDataAt(t) \notin ImageData)) =>
                 last.res = Some(TargetVersionInfo_default)
           /\ (FileExistsAt(t) /\ opened /\ FileDataAt(t) \in ImageData) =>
                 LET vi == read_pe_version_info(FileDataAt(t))[1]
                 IN last.res = Some(TargetVersionInfo(vi.ProductName, vi.ProductVersion))

\* C11 for the files that can be opened: this much holds of the code
C11_OpenableFiles ==
    (last.op = "get_target_version_info" /\ (FileExistsAt(last.arg) => last.env)) =>
        LET t == last.arg
        IN /\ (last.res = Nothing) <=> ~FileExistsAt(t)
           /\ (FileExistsAt(t) /\ FileDataAt(t) \notin ImageData) =>
                 last.res = Some(TargetVersionInfo_default)
           /\ (FileExistsAt(t) /\ FileDataAt(t) \in ImageData) =>
                 LET vi == read_pe_version_info(FileDataAt(t))[1]
                 IN last.res = Some(TargetVersionInfo(vi.ProductName, vi.ProductVersion))

(***************************************************************************)
(* C12.  get_hachimi_installed_target() returns the first Target, in the   *)
(* order of Target::VALUES, whose file at get_target_path(target) has      *)
(* version info with the product name "Hachimi", and None iff no catalog   *)
(* Target's file has it; a file that is missing, or present but not        *)
(* readable as a module image, never matches.                              *)
(***************************************************************************)
\* the version info of t's file names the marker: the file exists, opens and
\* is an image whose ProductName is "Hachimi"
HasMarker(t, openable) ==
    /\ FileExistsAt(t)
    /\ t \in openable
    /\ FileDataAt(t) \in ImageData
    /\ read_pe_version_info(FileDataAt(t))[1].ProductName = "Hachimi"

C12_FirstMarkedTarget ==
    last.op = "get_hachimi_installed_target" =>
        LET marked == {i \in 1..Len(TargetValues) : HasMarker(TargetValues[i], last.env)}
        IN IF marked = {} THEN last.res = None
           ELSE \E i \in marked :
                   /\ \A j \in marked : i <= j
                   /\ last.res = TargetValues[i]

\* a file of another version of the module is found
C12_Witness ==
    /\ last.op = "get_hachimi_installed_target"
    /\ last.res = "UnityPlayer"
    /\ install_dir = Base
    /\ fs.files["UnityPlayer.dll"] = RegFile(<<61>>)

(***************************************************************************)
(* C13.  get_target_path(target) and get_current_target_path() return None *)
(* iff install_dir is None; otherwise get_target_path(target) is base /    *)
(* "umamusume.exe.local" / the target's default file name, and             *)
(* get_current_target_path() is base / "umamusume.exe.local" / the custom  *)
(* name if there is one, else the selected target's default file name.     *)
(* The custom name never affects get_target_path.                          *)
(***************************************************************************)
DefaultFileName(t) == IF t = "UnityPlayer" THEN "UnityPlayer.dll" ELSE "?"

C13_PathsExact ==
    /\ last.op = "get_target_path" =>
          /\ (last.res = None) <=> (install_dir = None)
          /\ install_dir # None =>
                last.res = <<install_dir, "umamusume.exe.local", DefaultFileName(last.arg)>>
    /\ last.op = "get_current_target_path" =>
          /\ (last.res = None) <=> (install_dir = None)
          /\ (install_dir # None /\ custom_target # None) =>
                last.res = <<install_dir, "umamusume.exe.local", custom_target>>
          /\ (install_dir # None /\ custom_target = None) =>
                last.res = <<install_dir, "umamusume.exe.local", DefaultFileName(target)>>

\* get_target_path of an installer that has a custom file name
C13_Witness ==
    /\ last.op = "get_target_path"
    /\ custom_target = "custom.dll"
    /\ install_dir = Base
    /\ last.res = <<Base, "umamusume.exe.local", "UnityPlayer.dll">>

(***************************************************************************)
(* C15.  is_hachimi(info) is true iff info's name is present and equals    *)
(* "Hachimi" exactly, case included; an absent name gives false and the    *)
(* version plays no part.                                                  *)
(***************************************************************************)
C15_IsHachimiExact ==
    last.op = "is_hachimi" =>
        /\ last.res \in BOOLEAN
        /\ last.res <=> (last.arg.name = "Hachimi")
        /\ last.arg.name = None => ~last.res

\* the name differs from the marker in case only
C15_Witness ==
    /\ last.op = "is_hachimi"
    /\ last.arg.name = "hachimi"
    /\ last.res = FALSE

(***************************************************************************)
(* C16.  get_target_display_label(target) returns                          *)
(* "<file-name> (<display-name-or-Unknown>)" when version info with a      *)
(* usable name exists for the target, and the bare file name otherwise.    *)
(* The code puts "* " in front of the formatted label, and formats it for  *)
(* every version info, named or not.                                       *)
(***************************************************************************)
\* the target's file exists, opens, and its version resource has a name
UsableName(t, opened) ==
    /\ FileExistsAt(t)
    /\ opened
    /\ FileDataAt(t) \in ImageData
    /\ read_pe_version_info(FileDataAt(t))[1].ProductName # None

C16_LabelAsClaimed ==
    last.op = "get_target_display_label" =>
        IF UsableName(last.arg, last.env)
        THEN last.res = DefaultFileName(last.arg) \o " ("
                        \o read_pe_version_info(FileDataAt(last.arg))[1].ProductName \o ")"
        ELSE last.res = DefaultFileName(last.arg)

\* C16 amended: get_target_display_label(target) returns
\* "* <file-name> (<display-name-or-Unknown>)" whenever
\* get_target_version_info(target) gives an info (the file exists and can be
\* opened), with "Unknown" when the info has no name, and the bare file name
\* otherwise.
C16_LabelWithMarker ==
    last.op = "get_target_display_label" =>
        IF FileExistsAt(last.arg) /\ last.env
        THEN last.res = "* " \o DefaultFileName(last.arg) \o " ("
                        \o (IF UsableName(last.arg, last.env)
                            THEN read_pe_version_info(FileDataAt(last.arg))[1].ProductName
                            ELSE "Unknown")
                        \o ")"
        ELSE last.res = DefaultFileName(last.arg)

\* the label of an installed module
C16_Witness ==
    /\ last.op = "get_target_display_label"
    /\ FileExistsAt(last.arg)
    /\ FileDataAt(last.arg) = HachimiDll
    /\ last.res = "* UnityPlayer.dll (Hachimi)"

(***************************************************************************)
(* C14.  The launcher-config discovery never fails with an error or an     *)
(* abort: for a file that cannot be read, is not JSON, has a root that is  *)
(* no object, has no "contents" or one that is no array, has an entry that *)
(* is no object or whose "productId" is missing or no string, has a        *)
(* matching entry whose "detail" or "detail.path" is missing or ill-typed, *)
(* or has no entry with the known productId, it returns None; and it       *)
(* returns a directory only when the matching entry's detail.path names an *)
(* existing directory.                                                     *)
(* The code indexes the maps with [key], which panics on a missing key,    *)
(* and skips an entry whose "productId" is no string.                      *)
(***************************************************************************)
WellRooted(cfg) ==
    /\ cfg.state = "parsed"
    /\ cfg.json.t = "Object"
    /\ HasKey(cfg.json.v, "contents")
    /\ Index(cfg.json.v, "contents").t = "Array"

ContentsOf(cfg) == Index(cfg.json.v, "contents").v

EntryOk(e) ==
    /\ e.t = "Object"
    /\ HasKey(e.v, "productId")
    /\ Index(e.v, "productId").t = "String"

IsMatch(e) == EntryOk(e) /\ Index(e.v, "productId").v = "umamusume"

DetailPathOk(e) ==
    /\ HasKey(e.v, "detail")
    /\ Index(e.v, "detail").t = "Object"
    /\ HasKey(Index(e.v, "detail").v, "path")
    /\ Index(Index(e.v, "detail").v, "path").t = "String"

DetailPath(e) == Index(Index(e.v, "detail").v, "path").v

Mismatch(cfg) ==
    \/ ~WellRooted(cfg)
    \/ \E i \in 1..Len(ContentsOf(cfg)) : ~EntryOk(ContentsOf(cfg)[i])
    \/ \E i \in 1..Len(ContentsOf(cfg)) :
          IsMatch(ContentsOf(cfg)[i]) /\ ~DetailPathOk(ContentsOf(cfg)[i])
    \/ \A i \in 1..Len(ContentsOf(cfg)) : ~IsMatch(ContentsOf(cfg)[i])

C14_DetectNeverFails ==
    last.op = "detect_install_dir" =>
        /\ last.res # Panic
        /\ Mismatch(last.arg) => last.res = None
        /\ last.res \notin {None, Panic} =>
              /\ last.res \in last.env.dirs
              /\ \E i \in 1..Len(ContentsOf(last.arg)) :
                    /\ IsMatch(ContentsOf(last.arg)[i])
                    /\ DetailPathOk(ContentsOf(last.arg)[i])
                    /\ DetailPath(ContentsOf(last.arg)[i]) = last.res

\* what holds of the code: a directory is returned only when an entry with the
\* known productId has a detail.path that names an existing directory
C14_DirectoryOnlyIfExisting ==
    (last.op = "detect_install_dir" /\ last.res \notin {None, Panic}) =>
        /\ last.env.app_data_ok
        /\ last.res \in last.env.dirs
        /\ \E i \in 1..Len(ContentsOf(last.arg)) :
              /\ IsMatch(ContentsOf(last.arg)[i])
              /\ DetailPathOk(ContentsOf(last.arg)[i])
              /\ DetailPath(ContentsOf(last.arg)[i]) = last.res

(***************************************************************************)
(* C17.  post_install() takes its steps in a fixed order with no rollback: *)
(* the shim file is written before the registry key is opened, the prompt  *)
(* comes before the write of the flag, which comes before the restart      *)
(* notice.  If the write of the flag fails after the user confirmed,       *)
(* post_install() returns a registry-value error, the restart notice is    *)
(* not shown, the flag keeps its old value, and the shim and primary files *)
(* written earlier remain on disk.                                         *)
(***************************************************************************)
\* every a in the log comes before every b, and b does not occur without a
Precedes(a, b) ==
    /\ \A i, j \in 1..Len(last.log) : (last.log[i] = a /\ last.log[j] = b) => i < j
    /\ InLog(b) => InLog(a)

C17_OrderAndNoRollback ==
    last.op = "post_install" =>
        /\ Precedes("create", "write")
        /\ Precedes("write", "open_key")
        /\ InLog("open_key") => is_file(fs, ShimPath)
        /\ Precedes("open_key", "confirm")
        /\ Precedes("confirm", "set_value")
        /\ Precedes("set_value", "restart_notice")
        /\ InLog("restart_notice") => (last.res = "Ok" /\ reg = U32(1))
        /\ (InLog("set_value") /\ ~InLog("restart_notice")) =>
              /\ last.res = "RegistryValueError"
              /\ last.env.answer = "IDOK"
              /\ reg = pre.reg
              /\ is_file(fs, ShimPath)
              /\ is_file(pre.fs, CurPath) => is_file(fs, CurPath)
        /\ last.res = "RegistryValueError" => InLog("set_value")
        /\ (InLog("set_value") /\ reg # U32(1)) => last.res = "RegistryValueError"

\* after a successful install() the user confirmed and the write of the flag
\* failed
C17_Witness ==
    /\ prev = "install"
    /\ Returned("post_install", "RegistryValueError")
    /\ InLog("set_value")
    /\ reg = U32(0)
    /\ is_file(fs, ShimPath)
    /\ Installed

(***************************************************************************)
(* C18.  post_install() leaves the file at get_current_target_path() as it *)
(* is: for every custom_target, "apphelp.dll" included, after a successful *)
(* install() followed by post_install() the file at the current target     *)
(* path still equals the primary payload.                                  *)
(* With custom_target = "apphelp.dll" the shim is written over it.         *)
(***************************************************************************)
C18_PostInstallKeepsTargetFile ==
    (/\ prev = "install"
     /\ Returned("post_install", "Ok")
     /\ Lookup(pre.fs, CurPath) = RegFile(HachimiDll)) =>
        Lookup(fs, CurPath) = RegFile(HachimiDll)

\* C18 for the file names other than the shim's: this much holds of the code
C18_OtherNames ==
    (/\ prev = "install"
     /\ last.op = "post_install"
     /\ CurName # ShimName) =>
        Lookup(fs, CurPath) = Lookup(pre.fs, CurPath)

(***************************************************************************)
(* C19.  uninstall() removes only the file at the current target path (and *)
(* the overlay directory when that leaves it empty); it never removes the  *)
(* loader shim.  So after install(), post_install(), uninstall() the       *)
(* overlay directory still exists and still holds the shim file.           *)
(* With custom_target = "apphelp.dll" the current target path is the       *)
(* shim's path (C18), and uninstall() removes the shim and the directory.  *)
(***************************************************************************)
C19_UninstallKeepsShim ==
    (/\ last.op = "uninstall"
     /\ install_dir # None
     /\ Lookup(pre.fs, ShimPath) = RegFile(CellarDll)) =>
        /\ fs.local = "dir"
        /\ Lookup(fs, ShimPath) = RegFile(CellarDll)

\* C19 for the file names other than the shim's: this much holds of the code
C19_OtherNames ==
    (/\ last.op = "uninstall"
     /\ install_dir # None
     /\ CurName # ShimName) =>
        /\ OthersUntouched(CurName)
        /\ is_file(pre.fs, ShimPath) =>
              (fs.local = "dir" /\ Lookup(fs, ShimPath) = Lookup(pre.fs, ShimPath))

(***************************************************************************)
(* C20.  Install detection ignores the custom file name: the version probe *)
(* and get_hachimi_installed_target look only at base /                    *)
(* "umamusume.exe.local" / a catalog file name.  So after a successful     *)
(* install() with a custom_target that is no catalog file name, into an    *)
(* overlay directory with nothing else in it,                              *)
(* is_current_target_installed() is true and                               *)
(* get_hachimi_installed_target() returns None.                            *)
(***************************************************************************)
CatalogFileNames == {"UnityPlayer.dll"}

C20_DetectionIgnoresCustomName ==
    (/\ Returned("install", "Ok")
     /\ custom_target # None
     /\ custom_target \notin CatalogFileNames
     /\ pre.fs.files = NoFiles) =>
        /\ Installed
        /\ \A openable \in SUBSET Targets :
              get_hachimi_installed_target(install_dir, fs, openable) = None
        /\ \A t \in Targets, open_ok \in BOOLEAN :
              get_target_version_info(install_dir, t, fs, open_ok) = Nothing

\* the whole payload was installed under a custom name into an empty directory
C20_Witness ==
    /\ Returned("install", "Ok")
    /\ custom_target = "custom.dll"
    /\ pre.fs.files = NoFiles
    /\ Lookup(fs, CurPath) = RegFile(HachimiDll)

====
